---- MODULE Spec2Model ----
(***************************************************************************)
(* Model of the QuickJS evaluation bridge                                  *)
(*   src/ScriptBox.Wasm/scriptbox_wrapper.c  (the ScriptBox variant)       *)
(*   src/wasm/assistant_wrapper.c            (the assistant variant)       *)
(*                                                                         *)
(* Every C function is an operator that returns the sequence of primitive  *)
(* operations the function performs (engine calls, buffer writes, host     *)
(* imports), in program order, together with its return value.  An exported*)
(* entry point is one action: it runs the whole operation sequence against *)
(* the two process-wide buffers.  The QuickJS engine and the host imports  *)
(* are the environment: their outcomes are inputs of each call.            *)
(***************************************************************************)
EXTENDS Integers, Sequences, FiniteSets, TLC

VARIABLES
    variant,        \* which of the two wrappers the loaded module was built from
    g_last_error,   \* static char g_last_error[1024]: the C string it holds
    g_result,       \* static char g_result[65536]: the C string it holds
    call,           \* the last exported call: function, arguments, engine outcomes
    status,         \* the status code the last exported call returned
    trace,          \* the primitive operations of the last exported call, in order
    extent,         \* per buffer, the highest number of bytes from the buffer's
                    \* start that a write of the last call touched
    seen,           \* the global names guest code found when JS_Eval started
    arena,          \* the global names guest code defined in contexts that
                    \* have since been freed
    fetched,        \* what the last exported call returned, when it was an
                    \* accessor: the text at the pointer, or the length
    serialized,     \* whether the host holds a mutex around each call and the
                    \* fetch of its buffers
    lock,           \* the host thread holding that mutex, 0 when it is free
    thr             \* per host thread: where it is in its eval_js call, the
                    \* buffer writes the call has still to make, the status
                    \* it returned and what the thread then read

vars == <<variant, g_last_error, g_result, call, status, trace, extent, seen, arena,
          fetched, serialized, lock, thr>>

(***************************************************************************)
(* C strings and the fixed-size buffers                                    *)
(***************************************************************************)

ErrCap == 1024          \* sizeof(g_last_error)
ResCap == 65536         \* sizeof(g_result)
ResponseCap == 4096     \* sizeof(response_buf), sizeof(out_buf)

Min(a, b) == IF a < b THEN a ELSE b
Max(a, b) == IF a > b THEN a ELSE b

Take(s, n) == SubSeq(s, 1, Min(n, Len(s)))

IsPrefix(p, s) == Len(p) <= Len(s) /\ SubSeq(s, 1, Len(p)) = p

\* n copies of the string s
RECURSIVE Rep(_, _)
Rep(s, n) ==
    IF n <= 0 THEN ""
    ELSE IF n = 1 THEN s
    ELSE LET h == Rep(s, n \div 2)
         IN  IF n % 2 = 0 THEN h \o h ELSE h \o h \o s

\* whether the string p occurs in s
Contains(s, p) ==
    \E i \in 1..(Len(s) - Len(p) + 1) : SubSeq(s, i, i + Len(p) - 1) = p

\* a const char* that may be NULL
NULLPTR == [ok |-> FALSE, s |-> ""]
CStr(s) == [ok |-> TRUE, s |-> s]

\* printf's %d of a 32-bit int
Digit(d) == SubSeq("0123456789", d + 1, d + 1)
RECURSIVE Decimal(_)
Decimal(n) ==
    IF n = -2147483647 - 1 THEN "-2147483648"
    ELSE IF n < 0 THEN "-" \o Decimal(-n)
    ELSE IF n < 10 THEN Digit(n)
    ELSE Decimal(n \div 10) \o Digit(n % 10)

\* (mutant) a formatted write that ignores the size it is given
Snprintf_untruncated(off, size, text) ==
    [str |-> text, wrote |-> TRUE, end |-> off + Len(text) + 1]

\* snprintf(buf + off, size, "%s", text): the bytes stored before the
\* terminator, and the number of bytes of buf touched, terminator included
Snprintf(off, size, text) ==
    IF size <= 0
    THEN [str |-> "", wrote |-> FALSE, end |-> off]
    ELSE LET n == Min(Len(text), size - 1)
         IN  [str |-> SubSeq(text, 1, n), wrote |-> TRUE, end |-> off + n + 1]

(***************************************************************************)
(* Primitive operations                                                    *)
(***************************************************************************)

Ev(op, text, n) == [op |-> op, text |-> text, n |-> n, cap |-> 0]

\* (mutant) an append that passes the size of the whole buffer
AppendSize_full(cur) == ErrCap

\* the size argument of the snprintf that appends at g_last_error + cur
AppendSize(cur) == ErrCap - cur

\* (mutant) a stack append that starts at the beginning of the record
AppendOffset_start(cur) == 0

\* the offset of the stack append: strlen(g_last_error)
AppendOffset(cur) == cur

\* the size argument of the vsnprintf in set_error
ErrorSize == ErrCap

\* the offset at which set_error writes
ErrorOffset(buf) == 0

\* the buffers after one primitive operation
\* m = [err, res, xerr, xres]: the two strings and the two write extents
StepBuf(m, e) ==
    CASE e.op = "set_error" ->
            LET off == ErrorOffset(m.err)
                w == Snprintf(off, ErrorSize, e.text)
            IN  [m EXCEPT !.err = SubSeq(m.err, 1, off) \o w.str,
                          !.xerr = Max(m.xerr, w.end)]
      [] e.op = "append_error" ->
            LET cur == Len(m.err)
                off == AppendOffset(cur)
                w == Snprintf(off, AppendSize(cur), e.text)
            IN  [m EXCEPT !.err = IF w.wrote THEN SubSeq(m.err, 1, off) \o w.str
                                  ELSE m.err,
                          !.xerr = Max(m.xerr, w.end)]
      [] e.op = "clear_result" ->
            [m EXCEPT !.res = "", !.xres = Max(m.xres, 1)]
      [] e.op = "write_result" ->
            LET w == Snprintf(0, e.n, e.text)
            IN  [m EXCEPT !.res = w.str, !.xres = Max(m.xres, w.end)]
      [] OTHER -> m

RECURSIVE RunBuf(_, _)
RunBuf(m, ev) == IF ev = <<>> THEN m ELSE RunBuf(StepBuf(m, Head(ev)), Tail(ev))

(***************************************************************************)
(* Guest values (JSValue) as the bridge can observe them                   *)
(***************************************************************************)

\* A value is its kind, what JS_ToCString makes of it (NULL when the value
\* cannot be coerced to a string), and for an object what JSON.stringify and
\* its message and stack properties give.
Prim(kind, tostr) == [kind |-> kind, tostr |-> tostr]

JS_UNDEFINED == Prim("undefined", CStr("undefined"))
JS_NULL == Prim("null", CStr("null"))
JS_EXCEPTION == Prim("exception", NULLPTR)
JS_TRUE == Prim("bool", CStr("true"))
JS_FALSE == Prim("bool", CStr("false"))
JS_Number(s) == Prim("number", CStr(s))
JS_NewStringLen(s) == Prim("string", CStr(s))
JS_Symbol == Prim("symbol", NULLPTR)
JS_BigInt(s) == Prim("bigint", CStr(s))

\* json: the value JSON.stringify returns, JS_EXCEPTION when it throws
Obj(tostr, json, message, stack) ==
    [kind |-> "object", tostr |-> tostr, json |-> json,
     message |-> message, stack |-> stack]

\* new Error(m), thrown at the top level of the evaluated source:
\* Error.prototype.toString gives name ": " message
JS_NewError(name, m, stack) ==
    Obj(CStr(name \o ": " \o m), JS_NewStringLen("{}"),
        JS_NewStringLen(m), stack)

JS_ThrowTypeError(m) ==
    JS_NewError("TypeError", m, JS_NewStringLen("    at <eval> (eval)\n"))
JS_ThrowInternalError(m) ==
    JS_NewError("InternalError", m, JS_NewStringLen("    at <eval> (eval)\n"))
JS_ThrowReferenceError(m) ==
    JS_NewError("ReferenceError", m, JS_NewStringLen("    at <eval> (eval)\n"))

JS_IsUndefined(v) == v.kind = "undefined"
JS_IsNull(v) == v.kind = "null"
JS_IsException(v) == v.kind = "exception"
JS_IsBool(v) == v.kind = "bool"
JS_ToBool(v) == v = JS_TRUE
JS_IsNumber(v) == v.kind = "number"
JS_IsString(v) == v.kind = "string"
\* (mutant) a test that sends objects to the direct stringification
JS_IsObject_never(v) == FALSE
JS_IsObject(v) == v.kind = "object"
JS_ToCString(v) == v.tostr

\* a property read: an object has the property it was built with, a
\* primitive finds nothing on its prototype, and reading a property of
\* undefined or null throws
JS_GetPropertyStr(v, name) ==
    IF v.kind = "object" THEN v[name]
    ELSE IF v.kind \in {"undefined", "null", "exception"} THEN JS_EXCEPTION
    ELSE JS_UNDEFINED

(***************************************************************************)
(* set_error, capture_exception                                            *)
(***************************************************************************)

\* (mutant) set_error that returns without writing
set_error_skipped(text) == <<>>

\* vsnprintf(g_last_error, sizeof(g_last_error), fmt, args), fmt expanded
set_error(text) == <<Ev("set_error", text, 0)>>

\* 1 when the engine handed out a live value or string, which must be
\* released; 0 when it returned NULL or JS_EXCEPTION
Live(ok) == IF ok THEN 1 ELSE 0

\* (mutant) a capture that reports the message property when there is one
\* and stringifies the value only otherwise
capture_exception_message_first(exc) ==
    LET msgProp == JS_GetPropertyStr(exc, "message")
        msgStr == JS_ToCString(msgProp)
        msg == JS_ToCString(exc)
        stackVal == JS_GetPropertyStr(exc, "stack")
        stackStr == JS_ToCString(stackVal)
    IN  (IF msgStr.ok /\ ~JS_IsUndefined(msgProp)
         THEN set_error("Exception: " \o msgStr.s)
         ELSE IF msg.ok
         THEN set_error("Exception: " \o msg.s)
         ELSE set_error("Exception: (unable to extract message)"))
        \o (IF ~JS_IsUndefined(stackVal) /\ stackStr.ok
            THEN <<Ev("append_error", "\nStack: " \o stackStr.s, 0)>>
            ELSE <<>>)

\* capture_exception(ctx, exc): format the exception into g_last_error
capture_exception(exc) ==
    LET msg == JS_ToCString(exc)
        msgProp == JS_GetPropertyStr(exc, "message")
        msgStr == JS_ToCString(msgProp)
        stackVal == JS_GetPropertyStr(exc, "stack")
        stackStr == JS_ToCString(stackVal)
    IN  <<Ev("JS_ToCString", "msg", Live(msg.ok))>>
        \o (IF msg.ok
            THEN set_error("Exception: " \o msg.s)
                 \o <<Ev("JS_FreeCString", "msg", 0)>>
            ELSE <<Ev("JS_GetPropertyStr", "msgProp",
                      Live(~JS_IsException(msgProp))),
                   Ev("JS_ToCString", "msgStr", Live(msgStr.ok))>>
                 \o (IF msgStr.ok
                     THEN set_error("Exception: " \o msgStr.s)
                          \o <<Ev("JS_FreeCString", "msgStr", 0)>>
                     ELSE set_error("Exception: (unable to extract message)"))
                 \o <<Ev("JS_FreeValue", "msgProp", 0)>>)
        \o <<Ev("JS_GetPropertyStr", "stackVal",
                Live(~JS_IsException(stackVal)))>>
        \o (IF ~JS_IsUndefined(stackVal)
            THEN <<Ev("JS_ToCString", "stackStr", Live(stackStr.ok))>>
                 \o (IF stackStr.ok
                     THEN <<Ev("append_error", "\nStack: " \o stackStr.s, 0),
                            Ev("JS_FreeCString", "stackStr", 0)>>
                     ELSE <<>>)
            ELSE <<>>)
        \o <<Ev("JS_FreeValue", "stackVal", 0)>>

(***************************************************************************)
(* The two host imports and the guest-callable functions                   *)
(***************************************************************************)

\* (mutant) a call-out that counts the terminator into the length it passes
HostCallEv_terminated(in, in_len, out_cap) ==
    [op |-> "host_call", text |-> in, n |-> in_len + 1, cap |-> out_cap]

\* host_call(in_ptr, in_len, out_ptr, out_cap) and host_log(ptr, len) as
\* primitive operations: the bytes passed, their declared length, out_cap
HostCallEv(in, in_len, out_cap) ==
    [op |-> "host_call", text |-> in, n |-> in_len, cap |-> out_cap]
HostLogEv(s, len) == [op |-> "host_log", text |-> s, n |-> len, cap |-> 0]

\* What reading len bytes at a buffer yields when the host stored `written`
\* there: the bytes the host did not store (the uninitialised rest of the
\* buffer and whatever lies behind it) are indeterminate, here the byte junk.
ReadBytes(written, len, junk) ==
    Take(written, len) \o Rep(junk, len - Len(written))

\* the exception JS_ToCStringLen leaves pending when it returns NULL
ToStringError ==
    JS_NewError("TypeError", "cannot convert symbol to string",
                JS_NewStringLen("    at <eval> (eval)\n"))

\* the outcome of a native function: the value it returns, or (exc) the
\* exception it throws, and the primitive operations it performed
Returned(v, ev) == [exc |-> FALSE, val |-> v, ev |-> ev]
Thrown(v, ev) == [exc |-> TRUE, val |-> v, ev |-> ev]

\* argv[0] as a C function of declared length 1 finds it: the engine pads
\* the missing argument with undefined
Argv0(argc, argv0) == IF argc < 1 THEN JS_UNDEFINED ELSE argv0

\* host: [ret, bytes], the primitive's return code and the bytes it stored
\* in the response buffer
js_bridge_call(argc, argv0, host, junk) ==
    IF argc < 1
    THEN Thrown(JS_ThrowTypeError("bridge requires 1 argument (JSON string)"),
                <<>>)
    ELSE
    LET payload == JS_ToCString(argv0)
        payload_len == Len(payload.s)
        response_len == host.ret
        ev == <<Ev("JS_ToCStringLen", "payload", 1),
                HostCallEv(payload.s, payload_len, ResponseCap),
                Ev("JS_FreeCString", "payload", 0)>>
    IN  IF ~payload.ok
        THEN Thrown(JS_ThrowTypeError("bridge argument must be a string"),
                    <<Ev("JS_ToCStringLen", "payload", 0)>>)
        ELSE IF response_len < 0
        THEN Thrown(JS_ThrowInternalError(
                        "Host call failed with error code "
                        \o Decimal(response_len)), ev)
        ELSE IF response_len = 0
        THEN Returned(JS_NULL, ev)
        ELSE Returned(JS_NewStringLen(
                          ReadBytes(host.bytes, response_len, junk)), ev)

\* the assistant variant of the call-out
js_host_call_json(argc, argv0, host, junk) ==
    IF argc < 1
    THEN Thrown(JS_ThrowTypeError("host_call_json: expected 1 argument"), <<>>)
    ELSE
    LET in_str == JS_ToCString(argv0)
        in_len == Len(in_str.s)
        written == host.ret
        ev == <<Ev("JS_ToCStringLen", "in_str", 1),
                HostCallEv(in_str.s, in_len, ResponseCap),
                Ev("JS_FreeCString", "in_str", 0)>>
    IN  IF ~in_str.ok
        THEN Thrown(ToStringError, <<Ev("JS_ToCStringLen", "in_str", 0)>>)
        ELSE IF written < 0
        THEN Thrown(JS_ThrowInternalError(
                        "host_call failed with code " \o Decimal(written)), ev)
        ELSE IF written > ResponseCap
        THEN Thrown(JS_ThrowInternalError("host_call wrote too much data"), ev)
        ELSE Returned(JS_NewStringLen(ReadBytes(host.bytes, written, junk)), ev)

js_console_log(argc, argv0) ==
    LET str == JS_ToCString(Argv0(argc, argv0))
        len == Len(str.s)
    IN  IF ~str.ok
        THEN Thrown(ToStringError, <<Ev("JS_ToCStringLen", "str", 0)>>)
        ELSE Returned(JS_UNDEFINED,
                      <<Ev("JS_ToCStringLen", "str", 1),
                        HostLogEv(str.s, len),
                        Ev("JS_FreeCString", "str", 0)>>)

(***************************************************************************)
(* install_host_bridge                                                     *)
(***************************************************************************)

\* The engine primitives that can fail for lack of memory.  `fail` names the
\* first one that fails in a call ("none": all succeed); what a later one
\* would have done is never observed, because the call ends at the first.
FailPoints ==
    {"none", "JS_NewRuntime", "JS_NewContext", "JS_GetGlobalObject",
     "JS_NewObject:console", "JS_NewCFunction:log", "JS_NewObject:__host",
     "JS_NewCFunction:bridge", "js_malloc_rt", "JS_Eval"}

\* the globals of a context JS_NewContext has just made: the language's own
Intrinsics == {"JSON", "Error", "Symbol"}

\* ret: 0 or -1; globals: the global names of the context afterwards
install_host_bridge(fail, globals) ==
    IF fail = "JS_GetGlobalObject"
    THEN [ret |-> -1, globals |-> globals,
          ev |-> <<Ev("JS_GetGlobalObject", "global", 0),
                   Ev("JS_FreeValue", "global", 0)>>
                 \o set_error("Global object is null/undefined - context initialization failed")]
    ELSE IF fail = "JS_NewObject:console"
    THEN [ret |-> -1, globals |-> globals,
          ev |-> <<Ev("JS_GetGlobalObject", "global", 1),
                   Ev("JS_NewObject", "console", 0),
                   Ev("JS_FreeValue", "global", 0)>>
                 \o set_error("Failed to create console object")]
    ELSE IF fail = "JS_NewCFunction:log"
    THEN [ret |-> -1, globals |-> globals,
          ev |-> <<Ev("JS_GetGlobalObject", "global", 1),
                   Ev("JS_NewObject", "console", 1),
                   Ev("JS_NewCFunction", "logFn", 0),
                   Ev("JS_FreeValue", "console", 0),
                   Ev("JS_FreeValue", "global", 0)>>
                 \o set_error("Failed to create console.log function")]
    ELSE IF fail = "JS_NewObject:__host"
    THEN [ret |-> -1, globals |-> globals \cup {"console"},
          ev |-> <<Ev("JS_GetGlobalObject", "global", 1),
                   Ev("JS_NewObject", "console", 1),
                   Ev("JS_NewCFunction", "logFn", 1),
                   Ev("JS_SetPropertyStr", "logFn", 0),
                   Ev("JS_SetPropertyStr", "console", 0),
                   Ev("JS_NewObject", "hostObj", 0),
                   Ev("JS_FreeValue", "global", 0)>>
                 \o set_error("Failed to create __host object")]
    ELSE IF fail = "JS_NewCFunction:bridge"
    THEN [ret |-> -1, globals |-> globals \cup {"console"},
          ev |-> <<Ev("JS_GetGlobalObject", "global", 1),
                   Ev("JS_NewObject", "console", 1),
                   Ev("JS_NewCFunction", "logFn", 1),
                   Ev("JS_SetPropertyStr", "logFn", 0),
                   Ev("JS_SetPropertyStr", "console", 0),
                   Ev("JS_NewObject", "hostObj", 1),
                   Ev("JS_NewCFunction", "bridgeFn", 0),
                   Ev("JS_FreeValue", "hostObj", 0),
                   Ev("JS_FreeValue", "global", 0)>>
                 \o set_error("Failed to create bridge function")]
    ELSE [ret |-> 0, globals |-> globals \cup {"console", "__host"},
          ev |-> <<Ev("JS_GetGlobalObject", "global", 1),
                   Ev("JS_NewObject", "console", 1),
                   Ev("JS_NewCFunction", "logFn", 1),
                   Ev("JS_SetPropertyStr", "logFn", 0),
                   Ev("JS_SetPropertyStr", "console", 0),
                   Ev("JS_NewObject", "hostObj", 1),
                   Ev("JS_NewCFunction", "bridgeFn", 1),
                   Ev("JS_SetPropertyStr", "bridgeFn", 0),
                   Ev("JS_SetPropertyStr", "hostObj", 0),
                   Ev("JS_FreeValue", "global", 0)>>]

\* the assistant variant: console.log and __host_call_json on the global
\* object; it makes no __host object, so "JS_NewObject:__host" cannot fail
assistant_install_host_bridge(fail, globals) ==
    IF fail = "JS_GetGlobalObject"
    THEN [ret |-> -1, globals |-> globals,
          ev |-> <<Ev("JS_GetGlobalObject", "global", 0),
                   Ev("JS_FreeValue", "global", 0)>>
                 \o set_error("Global object is null/undefined - context initialization failed")]
    ELSE IF fail = "JS_NewObject:console"
    THEN [ret |-> -1, globals |-> globals,
          ev |-> <<Ev("JS_GetGlobalObject", "global", 1),
                   Ev("JS_NewObject", "console", 0),
                   Ev("JS_FreeValue", "global", 0)>>
                 \o set_error("Failed to create console object")]
    ELSE IF fail = "JS_NewCFunction:log"
    THEN [ret |-> -1, globals |-> globals,
          ev |-> <<Ev("JS_GetGlobalObject", "global", 1),
                   Ev("JS_NewObject", "console", 1),
                   Ev("JS_NewCFunction", "logFn", 0),
                   Ev("JS_FreeValue", "console", 0),
                   Ev("JS_FreeValue", "global", 0)>>
                 \o set_error("Failed to create console.log function")]
    ELSE IF fail = "JS_NewCFunction:bridge"
    THEN [ret |-> -1, globals |-> globals \cup {"console"},
          ev |-> <<Ev("JS_GetGlobalObject", "global", 1),
                   Ev("JS_NewObject", "console", 1),
                   Ev("JS_NewCFunction", "logFn", 1),
                   Ev("JS_SetPropertyStr", "logFn", 0),
                   Ev("JS_SetPropertyStr", "console", 0),
                   Ev("JS_NewCFunction", "hostCallFn", 0),
                   Ev("JS_FreeValue", "global", 0)>>
                 \o set_error("Failed to create __host_call_json function")]
    ELSE [ret |-> 0, globals |-> globals \cup {"console", "__host_call_json"},
          ev |-> <<Ev("JS_GetGlobalObject", "global", 1),
                   Ev("JS_NewObject", "console", 1),
                   Ev("JS_NewCFunction", "logFn", 1),
                   Ev("JS_SetPropertyStr", "logFn", 0),
                   Ev("JS_SetPropertyStr", "console", 0),
                   Ev("JS_NewCFunction", "hostCallFn", 1),
                   Ev("JS_SetPropertyStr", "hostCallFn", 0),
                   Ev("JS_FreeValue", "global", 0)>>]

(***************************************************************************)
(* js_value_to_string                                                      *)
(***************************************************************************)

\* (mutant) a canonicalizer that does not clear the buffer first
ClearResult_none == <<>>

\* result_buf[0] = '\0'
ClearResult == <<Ev("clear_result", "", 0)>>

\* (mutant) a canonicalizer that returns 0 without storing the text
WriteResult_none(text, result_buf_size) == <<>>

\* snprintf(result_buf, result_buf_size, "%s", text)
WriteResult(text, result_buf_size) == <<Ev("write_result", text, result_buf_size)>>

\* JS_ToCString(val) into result_buf, the tail shared by four branches
DirectToString(val, result_buf_size, failure) ==
    LET str == JS_ToCString(val)
    IN  IF ~str.ok
        THEN [ret |-> -1,
              ev |-> <<Ev("JS_ToCString", "str", 0)>> \o set_error(failure)]
        ELSE [ret |-> 0,
              ev |-> <<Ev("JS_ToCString", "str", 1)>>
                     \o WriteResult(str.s, result_buf_size)
                     \o <<Ev("JS_FreeCString", "str", 0)>>]

FreeJsonValues ==
    <<Ev("JS_FreeValue", "json_result", 0), Ev("JS_FreeValue", "stringify_fn", 0),
      Ev("JS_FreeValue", "json_obj", 0), Ev("JS_FreeValue", "global", 0)>>

js_value_to_string(val, result_buf_size) ==
    LET prefix(r) == [r EXCEPT !.ev = ClearResult \o @]
    IN
    IF JS_IsUndefined(val)
    THEN [ret |-> 0, ev |-> ClearResult \o WriteResult("undefined", result_buf_size)]
    ELSE IF JS_IsNull(val)
    THEN [ret |-> 0, ev |-> ClearResult \o WriteResult("null", result_buf_size)]
    ELSE IF JS_IsBool(val)
    THEN LET bval == JS_ToBool(val)
         IN  [ret |-> 0,
              ev |-> ClearResult
                     \o WriteResult(IF bval THEN "true" ELSE "false",
                                    result_buf_size)]
    ELSE IF JS_IsNumber(val) \/ JS_IsString(val)
    THEN prefix(DirectToString(val, result_buf_size,
                               "Failed to convert value to string"))
    ELSE IF JS_IsObject(val)
    THEN LET json_result == val.json
             call_ev == <<Ev("JS_GetGlobalObject", "global", 1),
                          Ev("JS_GetPropertyStr", "json_obj", 1),
                          Ev("JS_GetPropertyStr", "stringify_fn", 1),
                          Ev("JS_Call", "json_result",
                             IF JS_IsException(json_result) THEN 0 ELSE 1)>>
             json_str == JS_ToCString(json_result)
         IN  IF JS_IsException(json_result)
             THEN LET r == DirectToString(val, result_buf_size,
                                          "Failed to convert object to string")
                  IN  [r EXCEPT !.ev = ClearResult \o call_ev
                                       \o FreeJsonValues \o @]
             ELSE IF ~json_str.ok
             THEN [ret |-> -1,
                   ev |-> ClearResult \o call_ev
                          \o <<Ev("JS_ToCString", "json_str", 0)>>
                          \o FreeJsonValues
                          \o set_error("Failed to convert JSON result to string")]
             ELSE [ret |-> 0,
                   ev |-> ClearResult \o call_ev
                          \o <<Ev("JS_ToCString", "json_str", 1)>>
                          \o WriteResult(json_str.s, result_buf_size)
                          \o <<Ev("JS_FreeCString", "json_str", 0)>>
                          \o FreeJsonValues]
    ELSE prefix(DirectToString(val, result_buf_size,
                               "Failed to convert value to string"))

(***************************************************************************)
(* The guest engine: what JS_Eval does with a source text                  *)
(***************************************************************************)

StackText == "    at <eval> (eval)\n"
NoProp == JS_UNDEFINED

\* lengths of the long texts: a message that leaves room for part of the
\* stack section, a message longer than g_last_error, a result longer than
\* g_result
PartMsgLen == 1002
LongMsgLen == 2000
LongResultLen == 70000

\* the outcome of JS_Eval: the value returned, which is JS_EXCEPTION when
\* the evaluation threw; the exception then pending in the context (what
\* JS_GetException hands out); the context's globals afterwards; the host
\* imports invoked
Completes(v, globals, ev) ==
    [val |-> v, pending |-> JS_UNDEFINED, globals |-> globals, ev |-> ev]
Throws(v, globals, ev) ==
    [val |-> JS_EXCEPTION, pending |-> v, globals |-> globals, ev |-> ev]

\* a call of a native function bound to a global name; an unbound name
\* throws a ReferenceError
CallGlobal(name, native, globals) ==
    IF name \in globals
    THEN IF native.exc THEN Throws(native.val, globals, native.ev)
         ELSE Completes(native.val, globals, native.ev)
    ELSE Throws(JS_ThrowReferenceError("'" \o name \o "' is not defined"),
                globals, <<>>)

\* the same call inside try { } catch (e) { 'caught' }
CallGlobalCaught(name, native, globals) ==
    IF name \in globals /\ ~native.exc
    THEN Completes(native.val, globals, native.ev)
    ELSE Completes(JS_NewStringLen("caught"), globals,
                   IF name \in globals THEN native.ev ELSE <<>>)

PlainObject(json) == Obj(CStr("[object Object]"), json, NoProp, NoProp)

\* fail = "JS_Eval": the engine runs out of memory while evaluating
JS_Eval(fail, globals, code, host, junk) ==
    CASE fail = "JS_Eval" ->
            Throws(JS_ThrowInternalError("out of memory"), globals, <<>>)
      [] code = "" -> Completes(JS_UNDEFINED, globals, <<>>)
      [] code = "1+1" -> Completes(JS_Number("2"), globals, <<>>)
      [] code = "undefined" -> Completes(JS_UNDEFINED, globals, <<>>)
      [] code = "null" -> Completes(JS_NULL, globals, <<>>)
      [] code = "true" -> Completes(JS_TRUE, globals, <<>>)
      [] code = "false" -> Completes(JS_FALSE, globals, <<>>)
      [] code = "'x'" -> Completes(JS_NewStringLen("x"), globals, <<>>)
      [] code = "1n" -> Completes(JS_BigInt("1"), globals, <<>>)
      [] code = "Symbol()" -> Completes(JS_Symbol, globals, <<>>)
      [] code = "'x'.repeat(N)" ->
            Completes(JS_NewStringLen(Rep("x", LongResultLen)), globals, <<>>)
      [] code = "({a:1,b:[2,3]})" ->
            Completes(PlainObject(JS_NewStringLen("{\"a\":1,\"b\":[2,3]}")),
                      globals, <<>>)
      [] code = "(function(){})" ->
            Completes(Obj(CStr("function () {}"), JS_UNDEFINED, NoProp, NoProp),
                      globals, <<>>)
      [] code = "(()=>{let o={};o.o=o;return o})()" ->
            Completes(PlainObject(JS_EXCEPTION), globals, <<>>)
      [] code = "({toJSON(){throw 1},toString(){throw 2}})" ->
            Completes(Obj(NULLPTR, JS_EXCEPTION, NoProp, NoProp), globals, <<>>)
      [] code = "({toJSON(){return Symbol()}})" ->
            Completes(PlainObject(JS_Symbol), globals, <<>>)
      [] code = "JSON.stringify=()=>'s';({a:1})" ->
            Completes(PlainObject(JS_NewStringLen("s")), globals, <<>>)
      [] code = "x=5" -> Completes(JS_Number("5"), globals \cup {"x"}, <<>>)
      [] code = "typeof x" ->
            Completes(JS_NewStringLen(IF "x" \in globals THEN "number"
                                      ELSE "undefined"), globals, <<>>)
      [] code = "x" ->
            IF "x" \in globals THEN Completes(JS_Number("5"), globals, <<>>)
            ELSE Throws(JS_ThrowReferenceError("'x' is not defined"),
                        globals, <<>>)
      [] code = "(" ->
            Throws(JS_NewError("SyntaxError", "unexpected token in expression: ''",
                               JS_NewStringLen("    at eval:1\n")),
                   globals, <<>>)
      [] code = "throw new Error('boom')" ->
            Throws(JS_NewError("Error", "boom", JS_NewStringLen(StackText)),
                   globals, <<>>)
      [] code = "throw 'boom'" -> Throws(JS_NewStringLen("boom"), globals, <<>>)
      [] code = "throw null" -> Throws(JS_NULL, globals, <<>>)
      [] code = "throw new Error('a'.repeat(P))" ->
            Throws(JS_NewError("Error", Rep("a", PartMsgLen),
                               JS_NewStringLen(StackText)), globals, <<>>)
      [] code = "throw new Error('a'.repeat(Q))" ->
            Throws(JS_NewError("Error", Rep("a", LongMsgLen),
                               JS_NewStringLen(StackText)), globals, <<>>)
      [] code = "throw {message:'bad',toString(){throw 0}}" ->
            Throws(Obj(NULLPTR, JS_NewStringLen("{\"message\":\"bad\"}"),
                       JS_NewStringLen("bad"), NoProp), globals, <<>>)
      [] code = "throw {message:Symbol(),stack:'st',toString(){throw 0}}" ->
            Throws(Obj(NULLPTR, JS_NewStringLen("{\"stack\":\"st\"}"),
                       JS_Symbol, JS_NewStringLen("st")), globals, <<>>)
      [] code = "throw Object.assign(new Error('s'),{stack:Symbol()})" ->
            Throws(JS_NewError("Error", "s", JS_Symbol), globals, <<>>)
      [] code = "__host.bridge('ping')" ->
            CallGlobal("__host",
                       js_bridge_call(1, JS_NewStringLen("ping"), host, junk),
                       globals)
      [] code = "__host.bridge()" ->
            CallGlobal("__host", js_bridge_call(0, JS_UNDEFINED, host, junk),
                       globals)
      [] code = "__host.bridge(Symbol())" ->
            CallGlobal("__host", js_bridge_call(1, JS_Symbol, host, junk),
                       globals)
      [] code = "try{__host.bridge('ping')}catch(e){'caught'}" ->
            CallGlobalCaught("__host",
                             js_bridge_call(1, JS_NewStringLen("ping"), host, junk),
                             globals)
      [] code = "__host_call_json('ping')" ->
            CallGlobal("__host_call_json",
                       js_host_call_json(1, JS_NewStringLen("ping"), host, junk),
                       globals)
      [] code = "__host_call_json()" ->
            CallGlobal("__host_call_json",
                       js_host_call_json(0, JS_UNDEFINED, host, junk), globals)
      [] code = "__host_call_json(Symbol())" ->
            CallGlobal("__host_call_json",
                       js_host_call_json(1, JS_Symbol, host, junk), globals)
      [] code = "console.log('hi')" ->
            CallGlobal("console", js_console_log(1, JS_NewStringLen("hi")),
                       globals)
      [] code = "console.log()" ->
            CallGlobal("console", js_console_log(0, JS_UNDEFINED), globals)
      [] code = "console.log(Symbol())" ->
            CallGlobal("console", js_console_log(1, JS_Symbol), globals)
      [] OTHER ->
            Throws(JS_NewError("SyntaxError", "unexpected token",
                               JS_NewStringLen("    at eval:1\n")),
                   globals, <<>>)

\* the source texts the host submits
Sources ==
    {"", "1+1", "undefined", "null", "true", "false", "'x'", "1n", "Symbol()",
     "'x'.repeat(N)", "({a:1,b:[2,3]})", "(function(){})",
     "(()=>{let o={};o.o=o;return o})()", "({toJSON(){throw 1},toString(){throw 2}})",
     "({toJSON(){return Symbol()}})", "JSON.stringify=()=>'s';({a:1})", "x=5", "typeof x", "x", "(",
     "throw new Error('boom')", "throw 'boom'", "throw null",
     "throw new Error('a'.repeat(P))", "throw new Error('a'.repeat(Q))",
     "throw {message:'bad',toString(){throw 0}}",
     "throw {message:Symbol(),stack:'st',toString(){throw 0}}",
     "throw Object.assign(new Error('s'),{stack:Symbol()})",
     "__host.bridge('ping')", "__host.bridge()", "__host.bridge(Symbol())",
     "try{__host.bridge('ping')}catch(e){'caught'}",
     "__host_call_json('ping')", "__host_call_json()",
     "__host_call_json(Symbol())",
     "console.log('hi')", "console.log()", "console.log(Symbol())"}

\* the sources whose evaluation reaches host_call
CallsHost ==
    {"__host.bridge('ping')", "try{__host.bridge('ping')}catch(e){'caught'}",
     "__host_call_json('ping')"}

(***************************************************************************)
(* eval_js                                                                 *)
(***************************************************************************)

\* C int arithmetic: len + 1 in a 32-bit signed int, which wraps at INT_MAX
INT_MAX == 2147483647
INT_MIN == -2147483647 - 1
PlusOne(len) == IF len = INT_MAX THEN INT_MIN ELSE len + 1

\* the status codes eval_js returns
StatusSuccess == 0
StatusRuntimeFailed == 20
StatusContextFailed == 21
StatusException == 22
\* (mutant) a bridge failure reported as a context failure
StatusBridgeFailed_wrong == StatusContextFailed
StatusBridgeFailed == 23
\* (mutant) a null source reported as success
StatusNullInput_wrong == StatusSuccess
StatusNullInput == 24
\* (mutant) the allocation failure reported with the status of another phase
StatusAllocFailed_wrong == StatusBridgeFailed
StatusAllocFailed == 25
\* (mutant) a conversion failure reported as a raised exception
StatusConvertFailed_wrong == StatusException
StatusConvertFailed == 26

\* a source pointer: NULL, or the bytes it points at
NullSource == [null |-> TRUE, bytes |-> ""]
Source(bytes) == [null |-> FALSE, bytes |-> bytes]

\* (mutant) a context kept from the previous call instead of a new one
NewContextGlobals_reused == Intrinsics \cup arena

\* the global names of the context JS_NewContext returns
NewContextGlobals == Intrinsics

MallocEv(size, ok) ==
    [op |-> "js_malloc_rt", text |-> "code_copy", n |-> Live(ok), cap |-> size]

\* what a call returns to the action that runs it: the status code, the
\* primitive operations in program order, the globals guest code started
\* with (ran: JS_Eval was reached), the globals in the context when freed
Outcome(st, ev, ran, seen_, left) ==
    [status |-> st, ev |-> ev, ran |-> ran, seen |-> seen_, left |-> left]

\* (mutant) an exit path that forgets JS_FreeContext
Teardown_leak == <<Ev("JS_FreeRuntime", "rt", 0)>>

\* (mutant) an exit path that frees the runtime a second time
Teardown_twice ==
    <<Ev("JS_FreeContext", "ctx", 0), Ev("JS_FreeRuntime", "rt", 0),
      Ev("JS_FreeRuntime", "rt", 0)>>

\* (mutant) an exit path that frees the runtime before its context
Teardown_runtime_first ==
    <<Ev("JS_FreeRuntime", "rt", 0), Ev("JS_FreeContext", "ctx", 0)>>

\* JS_FreeContext(ctx); JS_FreeRuntime(rt); on the way out
Teardown == <<Ev("JS_FreeContext", "ctx", 0), Ev("JS_FreeRuntime", "rt", 0)>>

\* eng = [fail, host, junk]: the engine primitive that fails, the host's
\* reply to host_call, the indeterminate byte
eval_js(code_ptr, len, eng) ==
    IF code_ptr.null
    THEN Outcome(StatusNullInput, set_error("code_ptr is NULL"), FALSE, {}, {})
    ELSE IF eng.fail = "JS_NewRuntime"
    THEN Outcome(StatusRuntimeFailed, <<Ev("JS_NewRuntime", "rt", 0)>>
                     \o set_error("Failed to create JavaScript runtime"),
                 FALSE, {}, {})
    ELSE IF eng.fail = "JS_NewContext"
    THEN Outcome(StatusContextFailed, <<Ev("JS_NewRuntime", "rt", 1),
                       Ev("JS_NewContext", "ctx", 0)>>
                     \o set_error("Failed to create JavaScript context")
                     \o <<Ev("JS_FreeRuntime", "rt", 0)>>,
                 FALSE, {}, {})
    ELSE
    LET bridge == install_host_bridge(eng.fail, NewContextGlobals)
        head == <<Ev("JS_NewRuntime", "rt", 1), Ev("JS_NewContext", "ctx", 1),
                  Ev("JS_SetMaxStackSize", "rt", 0)>> \o bridge.ev
    IN
    IF bridge.ret # 0
    THEN Outcome(StatusBridgeFailed,
                 head \o <<Ev("install_host_bridge", "ret", bridge.ret)>>
                      \o Teardown, FALSE, {}, bridge.globals)
    ELSE IF eng.fail = "js_malloc_rt"
    THEN Outcome(StatusAllocFailed,
                 head \o <<Ev("install_host_bridge", "ret", bridge.ret),
                           MallocEv(PlusOne(len), FALSE)>>
                     \o set_error("Failed to allocate code buffer ("
                                  \o Decimal(PlusOne(len)) \o " bytes)")
                     \o Teardown,
                 FALSE, {}, bridge.globals)
    ELSE
    LET code_copy == Take(code_ptr.bytes, len)
        result == JS_Eval(eng.fail, bridge.globals, code_copy, eng.host, eng.junk)
        run == head \o <<Ev("install_host_bridge", "ret", bridge.ret),
                         MallocEv(PlusOne(len), TRUE),
                         Ev("copy", code_copy, len),
                         Ev("terminate", "code_copy", len),
                         Ev("JS_Eval", code_copy, len)>> \o result.ev
        conv == js_value_to_string(result.val, ResCap)
    IN
    IF JS_IsException(result.val)
    THEN Outcome(StatusException,
                 run \o <<Ev("JS_GetException", "exc", 1)>>
                     \o capture_exception(result.pending)
                     \o <<Ev("JS_FreeValue", "exc", 0),
                          Ev("JS_FreeValue", "result", 0),
                          Ev("js_free_rt", "code_copy", 0)>>
                     \o Teardown,
                 TRUE, bridge.globals, result.globals)
    ELSE IF conv.ret # 0
    THEN Outcome(StatusConvertFailed,
                 run \o <<Ev("JS_Eval:value", "result", 1)>> \o conv.ev
                     \o <<Ev("js_value_to_string", "ret", conv.ret)>>
                     \o <<Ev("JS_FreeValue", "result", 0),
                          Ev("js_free_rt", "code_copy", 0)>>
                     \o Teardown,
                 TRUE, bridge.globals, result.globals)
    ELSE Outcome(StatusSuccess,
                 run \o <<Ev("JS_Eval:value", "result", 1)>> \o conv.ev
                    \o <<Ev("js_value_to_string", "ret", conv.ret)>>
                    \o <<Ev("JS_FreeValue", "result", 0),
                         Ev("js_free_rt", "code_copy", 0)>>
                    \o Teardown
                    \o set_error("OK"),
                 TRUE, bridge.globals, result.globals)

\* the assistant variant: no result buffer, no status 26
assistant_eval_js(code_ptr, len, eng) ==
    IF code_ptr.null
    THEN Outcome(StatusNullInput, set_error("code_ptr is NULL"), FALSE, {}, {})
    ELSE IF eng.fail = "JS_NewRuntime"
    THEN Outcome(StatusRuntimeFailed, <<Ev("JS_NewRuntime", "rt", 0)>>
                     \o set_error("Failed to create JavaScript runtime"),
                 FALSE, {}, {})
    ELSE IF eng.fail = "JS_NewContext"
    THEN Outcome(StatusContextFailed, <<Ev("JS_NewRuntime", "rt", 1),
                       Ev("JS_NewContext", "ctx", 0)>>
                     \o set_error("Failed to create JavaScript context")
                     \o <<Ev("JS_FreeRuntime", "rt", 0)>>,
                 FALSE, {}, {})
    ELSE
    LET bridge == assistant_install_host_bridge(eng.fail, NewContextGlobals)
        head == <<Ev("JS_NewRuntime", "rt", 1), Ev("JS_NewContext", "ctx", 1),
                  Ev("JS_SetMaxStackSize", "rt", 0)>> \o bridge.ev
    IN
    IF bridge.ret # 0
    THEN Outcome(StatusBridgeFailed,
                 head \o <<Ev("install_host_bridge", "ret", bridge.ret)>>
                      \o Teardown, FALSE, {}, bridge.globals)
    ELSE IF eng.fail = "js_malloc_rt"
    THEN Outcome(StatusAllocFailed,
                 head \o <<Ev("install_host_bridge", "ret", bridge.ret),
                           Ev("JS_SetMaxStackSize", "rt", 0),
                           MallocEv(PlusOne(len), FALSE)>>
                     \o set_error("Failed to allocate code buffer ("
                                  \o Decimal(PlusOne(len)) \o " bytes)")
                     \o Teardown,
                 FALSE, {}, bridge.globals)
    ELSE
    LET code_copy == Take(code_ptr.bytes, len)
        result == JS_Eval(eng.fail, bridge.globals, code_copy, eng.host, eng.junk)
        run == head \o <<Ev("install_host_bridge", "ret", bridge.ret),
                         Ev("JS_SetMaxStackSize", "rt", 0),
                         MallocEv(PlusOne(len), TRUE),
                         Ev("copy", code_copy, len),
                         Ev("terminate", "code_copy", len),
                         Ev("JS_Eval", code_copy, len)>> \o result.ev
    IN
    IF JS_IsException(result.val)
    THEN Outcome(StatusException,
                 run \o <<Ev("JS_GetException", "exc", 1)>>
                     \o capture_exception(result.pending)
                     \o <<Ev("JS_FreeValue", "exc", 0),
                          Ev("JS_FreeValue", "result", 0),
                          Ev("js_free_rt", "code_copy", 0)>>
                     \o Teardown,
                 TRUE, bridge.globals, result.globals)
    ELSE Outcome(StatusSuccess,
                 run \o <<Ev("JS_Eval:value", "result", 1),
                             Ev("JS_FreeValue", "result", 0),
                             Ev("js_free_rt", "code_copy", 0)>>
                    \o Teardown
                    \o set_error("OK"),
                 TRUE, bridge.globals, result.globals)

(***************************************************************************)
(* quickjs_selftest (the same text in both variants)                       *)
(***************************************************************************)

quickjs_selftest(eng) ==
    IF eng.fail = "JS_NewRuntime"
    THEN Outcome(100, <<Ev("JS_NewRuntime", "rt", 0)>>
                      \o set_error("Selftest: Failed to create runtime"),
                 FALSE, {}, {})
    ELSE IF eng.fail = "JS_NewContext"
    THEN Outcome(101, <<Ev("JS_NewRuntime", "rt", 1),
                        Ev("JS_NewContext", "ctx", 0)>>
                      \o set_error("Selftest: Failed to create context")
                      \o <<Ev("JS_FreeRuntime", "rt", 0)>>,
                 FALSE, {}, {})
    ELSE
    LET src == "1+1"
        result == JS_Eval(eng.fail, NewContextGlobals, src, eng.host, eng.junk)
        run == <<Ev("JS_NewRuntime", "rt", 1), Ev("JS_NewContext", "ctx", 1),
                 Ev("JS_SetMaxStackSize", "rt", 0), Ev("JS_Eval", src, 3)>>
               \o result.ev
    IN
    IF JS_IsException(result.val)
    THEN Outcome(102, run \o <<Ev("JS_GetException", "exc", 1)>>
                      \o capture_exception(result.pending)
                      \o <<Ev("JS_FreeValue", "exc", 0),
                           Ev("JS_FreeValue", "result", 0)>>
                      \o Teardown,
                 TRUE, NewContextGlobals, result.globals)
    ELSE Outcome(0, run \o <<Ev("JS_Eval:value", "result", 1),
                             Ev("JS_FreeValue", "result", 0)>>
                    \o Teardown
                    \o set_error("Selftest: OK (QuickJS is functional)"),
                 TRUE, NewContextGlobals, result.globals)

(***************************************************************************)
(* The host: the calls it makes and the replies of its imports             *)
(***************************************************************************)

Variants == {"ScriptBox", "assistant"}

\* replies of host_call: the return code and the bytes stored at out_ptr.
\* The last one reports the length it needed after filling the buffer.
NoReply == [ret |-> 0, bytes |-> ""]
HostReplies ==
    {[ret |-> -1, bytes |-> ""],
     [ret |-> INT_MIN, bytes |-> ""],
     [ret |-> 0, bytes |-> ""],
     [ret |-> 4, bytes |-> "pong"],
     [ret |-> ResponseCap, bytes |-> Rep("r", ResponseCap)],
     [ret |-> ResponseCap + 1, bytes |-> Rep("r", ResponseCap)]}

\* the values an indeterminate byte may take
JunkBytes == {"?", "#"}

\* sources with which a failure of each engine primitive is tried: up to
\* JS_Eval the bridge does not look at the source
FailSources == {"1+1", "throw new Error('boom')"}

\* (source pointer, length) pairs the host submits: a NULL pointer with any
\* length, each source with its byte length, and an empty span
Requests ==
    {[code_ptr |-> NullSource, len |-> n] : n \in {0, 7}}
    \cup {[code_ptr |-> Source(b), len |-> Len(b)] : b \in Sources}
    \cup {[code_ptr |-> Source("1+1"), len |-> 0]}

\* the engine outcomes to try with a request
FailsFor(req) ==
    IF req.code_ptr.null THEN {"none"}
    ELSE IF req.code_ptr.bytes \in FailSources /\ req.len > 0 THEN FailPoints
    ELSE {"none", "JS_Eval"}

RepliesFor(req, fail) ==
    IF ~req.code_ptr.null /\ fail = "none" /\ req.code_ptr.bytes \in CallsHost
    THEN HostReplies ELSE {NoReply}

JunkFor(host) == IF host.ret > Len(host.bytes) THEN JunkBytes ELSE {"?"}

(***************************************************************************)
(* The state machine                                                       *)
(***************************************************************************)

NoEng == [fail |-> "none", host |-> NoReply, junk |-> "?"]
NoFetch == [fn |-> "none", text |-> "", len |-> 0]

\* the host threads, and a thread that is not in a call
Threads == {1, 2}
Idle == [pc |-> "idle", todo |-> <<>>, status |-> 0,
         made |-> [err |-> "", res |-> ""], got |-> [err |-> "", res |-> ""]]

Init ==
    /\ variant \in Variants
    /\ g_last_error = ""
    /\ g_result = ""
    /\ call = [fn |-> "none", code_ptr |-> NullSource, len |-> 0, eng |-> NoEng]
    /\ status = 0
    /\ trace = <<>>
    /\ extent = [err |-> 0, res |-> 0]
    /\ seen = {}
    /\ arena = {}
    /\ fetched = NoFetch
    /\ serialized = TRUE
    /\ lock = 0
    /\ thr = [t \in Threads |-> Idle]

\* run a call's operations against the buffers and record what it returned
Finish(fn, req, eng, outcome) ==
    \E r \in {outcome} :
    \E m \in {RunBuf([err |-> g_last_error, res |-> g_result,
                     xerr |-> 0, xres |-> 0], r.ev)} :
        /\ g_last_error' = m.err
        /\ g_result' = m.res
        /\ call' = [fn |-> fn, code_ptr |-> req.code_ptr, len |-> req.len,
                    eng |-> eng]
        /\ status' = r.status
        /\ trace' = r.ev
        /\ extent' = [err |-> m.xerr, res |-> m.xres]
        /\ seen' = r.seen
        /\ arena' = arena \cup (IF r.ran THEN r.left \ r.seen ELSE {})
        /\ fetched' = NoFetch
        /\ UNCHANGED <<variant, serialized, lock, thr>>

\* the host calls eval_js with one of the requests reqs
EvalJsOf(reqs) ==
    \E req \in reqs :
    \E fail \in FailsFor(req) :
    \E host \in RepliesFor(req, fail) :
    \E junk \in JunkFor(host) :
        LET eng == [fail |-> fail, host |-> host, junk |-> junk]
        IN  Finish("eval_js", req, eng,
                   IF variant = "ScriptBox"
                   THEN eval_js(req.code_ptr, req.len, eng)
                   ELSE assistant_eval_js(req.code_ptr, req.len, eng))

EvalJs == EvalJsOf(Requests)

SelfTest ==
    \E fail \in {"none", "JS_NewRuntime", "JS_NewContext", "JS_Eval"} :
        LET eng == [fail |-> fail, host |-> NoReply, junk |-> "?"]
        IN  Finish("quickjs_selftest",
                   [code_ptr |-> NullSource, len |-> 0], eng,
                   quickjs_selftest(eng))

Next == EvalJs \/ SelfTest

Spec == Init /\ [][Next]_vars

(***************************************************************************)
(* The accessors                                                           *)
(***************************************************************************)

\* (mutant) a length accessor that reports the capacity of the buffer
get_last_error_len_capacity == ErrCap

\* what the host finds at the pointer returned (the string stored there),
\* and the length returned
get_last_error_ptr == g_last_error
get_last_error_len == Len(g_last_error)
get_result_ptr == g_result
get_result_len == Len(g_result)

\* an accessor returns and leaves everything else as it was
Fetch(fn, text, len) ==
    /\ fetched' = [fn |-> fn, text |-> text, len |-> len]
    /\ UNCHANGED <<variant, g_last_error, g_result, call, status, trace,
                   extent, seen, arena, serialized, lock, thr>>

GetLastErrorPtr == Fetch("get_last_error_ptr", get_last_error_ptr, 0)
GetLastErrorLen == Fetch("get_last_error_len", "", get_last_error_len)
\* the result accessors exist in the ScriptBox variant only
GetResultPtr ==
    variant = "ScriptBox" /\ Fetch("get_result_ptr", get_result_ptr, 0)
GetResultLen ==
    variant = "ScriptBox" /\ Fetch("get_result_len", "", get_result_len)

\* the requests of a host that also reads the buffers between its calls
FetchRequests ==
    {[code_ptr |-> NullSource, len |-> 0]}
    \cup {[code_ptr |-> Source(b), len |-> Len(b)] :
             b \in {"1+1", "({a:1,b:[2,3]})", "Symbol()", "throw 'boom'"}}

EvalJsFetching == EvalJsOf(FetchRequests)

NextAccessors ==
    \/ EvalJsFetching
    \/ SelfTest
    \/ GetLastErrorPtr
    \/ GetLastErrorLen
    \/ GetResultPtr
    \/ GetResultLen

SpecAccessors == Init /\ [][NextAccessors]_vars

(***************************************************************************)
(* Reading the record of the last call                                     *)
(***************************************************************************)

IsEvalJs == call.fn = "eval_js"

\* positions of the last call's operations of a kind
Ops(op) == {i \in DOMAIN trace : trace[i].op = op}
\* ... that handed out a live object (n = 1)
Made(op) == {i \in Ops(op) : trace[i].n = 1}

Ran == Ops("JS_Eval") # {}
Raised == Ops("JS_GetException") # {}
ErrWritten == Ops("set_error") # {}
ResWritten == Ops("clear_result") \cup Ops("write_result") # {}
HostInvoked == Ops("host_call") \cup Ops("host_log") # {}

\* the source text handed to JS_Eval
Evaluated == Take(call.code_ptr.bytes, call.len)

\* the names install_host_bridge puts on the global object
BridgeGlobals ==
    IF variant = "ScriptBox" THEN {"console", "__host"}
    ELSE {"console", "__host_call_json"}

(***************************************************************************)
(* C1  Every runtime and every context made during an eval_js call with a  *)
(* non-null source is released exactly once, after it was made and before  *)
(* the call returns, whichever engine primitive fails.                     *)
(***************************************************************************)
C1_ReleasedExactlyOnce ==
    (IsEvalJs /\ ~call.code_ptr.null) =>
        /\ Cardinality(Made("JS_NewRuntime")) <= 1
        /\ Cardinality(Ops("JS_FreeRuntime")) = Cardinality(Made("JS_NewRuntime"))
        /\ Cardinality(Ops("JS_FreeContext")) = Cardinality(Made("JS_NewContext"))
        /\ \A f \in Ops("JS_FreeRuntime") : \E c \in Made("JS_NewRuntime") : c < f
        /\ \A f \in Ops("JS_FreeContext") : \E c \in Made("JS_NewContext") : c < f

\* a call that failed after both were made (the source copy could not be
\* allocated) and released each once
C1_Witness ==
    /\ IsEvalJs /\ status = 25
    /\ Cardinality(Made("JS_NewRuntime")) = 1
    /\ Cardinality(Made("JS_NewContext")) = 1
    /\ Cardinality(Ops("JS_FreeRuntime")) = 1
    /\ Cardinality(Ops("JS_FreeContext")) = 1

(***************************************************************************)
(* C2  Isolation: the globals guest code finds when an eval_js call starts *)
(* evaluating are the language's own plus the bridge, whatever earlier     *)
(* calls defined: `typeof x` is "undefined" and reading x throws, also     *)
(* after a call that assigned x.                                           *)
(***************************************************************************)
C2_Isolation ==
    (IsEvalJs /\ Ran) =>
        /\ seen = Intrinsics \cup BridgeGlobals
        /\ (call.eng.fail = "none" /\ Evaluated = "typeof x") =>
              /\ status = 0
              /\ variant = "ScriptBox" => g_result = "undefined"
        /\ (call.eng.fail = "none" /\ Evaluated = "x") =>
              /\ status = 22
              /\ IsPrefix("Exception: ReferenceError: 'x' is not defined",
                          g_last_error)

\* B = `typeof x` evaluated after some earlier call A defined the global x
C2_Witness ==
    /\ IsEvalJs /\ variant = "ScriptBox"
    /\ Evaluated = "typeof x" /\ call.eng.fail = "none"
    /\ "x" \in arena
    /\ status = 0 /\ g_result = "undefined"

(***************************************************************************)
(* C3  eval_js tries its phases in one fixed order, each at most once,     *)
(* stops at the first that fails and returns that phase's status: null     *)
(* source 24, runtime 20, context 21, bridge 23, source copy 25,           *)
(* evaluation raised 22, result conversion 26, else 0.                     *)
(***************************************************************************)
PhaseOrder ==
    IF variant = "ScriptBox"
    THEN <<"JS_NewRuntime", "JS_NewContext", "install_host_bridge",
           "js_malloc_rt", "JS_Eval", "js_value_to_string">>
    ELSE <<"JS_NewRuntime", "JS_NewContext", "install_host_bridge",
           "js_malloc_rt", "JS_Eval">>
PhaseCode == <<20, 21, 23, 25, 22, 26>>
IsPhase(e) == \E i \in DOMAIN PhaseOrder : PhaseOrder[i] = e.op
PhaseFailed(e) ==
    CASE e.op \in {"JS_NewRuntime", "JS_NewContext", "js_malloc_rt"} -> e.n = 0
      [] e.op \in {"install_host_bridge", "js_value_to_string"} -> e.n # 0
      [] e.op = "JS_Eval" -> Raised
      [] OTHER -> FALSE

C3_FirstFailingPhase ==
    IsEvalJs =>
        LET ph == SelectSeq(trace, IsPhase)
            n == Len(ph)
        IN  IF call.code_ptr.null
            THEN status = 24 /\ n = 0
            ELSE /\ n >= 1 /\ n <= Len(PhaseOrder)
                 /\ \A i \in 1..n : ph[i].op = PhaseOrder[i]
                 /\ \A i \in 1..(n - 1) : ~PhaseFailed(ph[i])
                 /\ PhaseFailed(ph[n]) => status = PhaseCode[n]
                 /\ ~PhaseFailed(ph[n]) => n = Len(PhaseOrder) /\ status = 0

\* the bridge installer failed: three phases ran, status 23
C3_Witness ==
    /\ IsEvalJs /\ status = 23
    /\ Len(SelectSeq(trace, IsPhase)) = 3
    /\ call.eng.fail = "JS_NewCFunction:bridge"

(***************************************************************************)
(* C4  Every eval_js call writes the Diagnostic Record, and the record is  *)
(* exactly "OK" if and only if the call returned 0.                        *)
(***************************************************************************)
C4_DiagnosticMatchesStatus ==
    IsEvalJs => /\ ErrWritten
                /\ (g_last_error = "OK") <=> (status = 0)

\* a conversion failure: status 26 with its own diagnostic
C4_Witness ==
    /\ IsEvalJs /\ status = 26
    /\ g_last_error = "Failed to convert JSON result to string"

(***************************************************************************)
(* C5 (as stated)  Every eval_js call writes exactly one of the two        *)
(* buffers: the Diagnostic Record or the Canonical Result, never both and  *)
(* never neither.                                                          *)
(***************************************************************************)
C5_ExactlyOneBuffer ==
    IsEvalJs => (ErrWritten # ResWritten)

(***************************************************************************)
(* C5 (amended)  Every eval_js call writes the Diagnostic Record; it       *)
(* writes the Canonical Result as well exactly when it reaches the Result  *)
(* Canonicalizer, that is when it returns 0 or 26 in the ScriptBox         *)
(* variant.  Calls returning 20..25 write the Diagnostic Record alone.     *)
(***************************************************************************)
C5_RecordAlwaysResultWhenCanonicalized ==
    IsEvalJs =>
        /\ ErrWritten
        /\ ResWritten <=> (variant = "ScriptBox" /\ status \in {0, 26})

\* a successful call, which wrote the result and then "OK"
C5_Witness ==
    /\ IsEvalJs /\ status = 0
    /\ Ops("write_result") # {} /\ Ops("set_error") # {}
    /\ g_result = "2" /\ g_last_error = "OK"

\* the text the last call's write_result operation was given
WrittenText == trace[CHOOSE i \in Ops("write_result") : TRUE].text

(***************************************************************************)
(* C6 (as stated)  The Canonical Result changes only in successful calls:  *)
(* a call returning 0 overwrites it, a call returning any non-zero status  *)
(* leaves its content as it was.                                           *)
(***************************************************************************)
C6_OnlySuccessOverwrites ==
    [][(variant = "ScriptBox" /\ call'.fn = "eval_js") =>
          /\ status' = 0 => Ops("write_result")' # {}
          /\ status' # 0 => g_result' = g_result]_vars

(***************************************************************************)
(* C6 (amended)  A call returning 0 overwrites the Canonical Result with   *)
(* the canonical text (cut to 65535 bytes); a call returning 20..25 leaves *)
(* its content as it was; a call returning 26 leaves it the empty string.  *)
(***************************************************************************)
C6_OverwrittenClearedOrKept ==
    [][(variant = "ScriptBox" /\ call'.fn = "eval_js") =>
          /\ status' = 0 =>
                /\ Cardinality(Ops("write_result")') = 1
                /\ g_result' = Take(WrittenText', ResCap - 1)
          /\ status' = 26 => g_result' = "" /\ Ops("write_result")' = {}
          /\ status' \in 20..25 => g_result' = g_result /\ ~ResWritten']_vars

\* a failed call after which the result of an earlier call is still there
C6_Witness ==
    /\ IsEvalJs /\ variant = "ScriptBox"
    /\ status = 22
    /\ g_result = "{\"a\":1,\"b\":[2,3]}"

(***************************************************************************)
(* C7  eval_js with a null source pointer, whatever the length, returns 24 *)
(* at once: it makes no runtime and no context, invokes no host import,    *)
(* sets the Diagnostic Record to "code_ptr is NULL" and leaves the         *)
(* Canonical Result unchanged.                                             *)
(***************************************************************************)
C7_NullSource ==
    /\ [](IsEvalJs /\ call.code_ptr.null =>
            /\ status = 24
            /\ Ops("JS_NewRuntime") = {} /\ Ops("JS_NewContext") = {}
            /\ ~Ran /\ ~HostInvoked /\ ~ResWritten
            /\ g_last_error = "code_ptr is NULL")
    /\ [][(call'.fn = "eval_js" /\ call'.code_ptr.null) =>
             g_result' = g_result]_vars

\* a null pointer with a non-zero length, after a call that left a result
C7_Witness ==
    /\ IsEvalJs /\ call.code_ptr.null /\ call.len = 7
    /\ status = 24
    /\ g_last_error = "code_ptr is NULL"
    /\ g_result = "2"


\* the exception the last call's evaluation left pending in the context
PendingException ==
    JS_Eval(call.eng.fail, seen, Evaluated, call.eng.host, call.eng.junk).pending

\* the thrown value is an error object carrying a message string
HasMessage(exc) == JS_IsObject(exc) /\ JS_IsString(exc.message)
\* the thrown value carries a stack property that is not undefined
HasStack(exc) == JS_IsObject(exc) /\ ~JS_IsUndefined(exc.stack)

(***************************************************************************)
(* C8 (as stated)  When the evaluated source raises an error whose message *)
(* is M, eval_js returns 22 and the Diagnostic Record begins with          *)
(* "Exception: " immediately followed by M; if the error carries a defined *)
(* stack, the record also contains a "\nStack: " section.                  *)
(***************************************************************************)
C8_ExceptionRoundTrip ==
    (IsEvalJs /\ Raised /\ call.eng.fail = "none") =>
        LET exc == PendingException
        IN  /\ status = 22
            /\ HasMessage(exc) =>
                  IsPrefix("Exception: " \o exc.message.tostr.s, g_last_error)
            /\ HasStack(exc) => Contains(g_last_error, "\nStack: ")

\* the text the record gives for the thrown value: its string form, else the
\* string form of its message property, else a placeholder
ExceptionText(exc) ==
    IF JS_ToCString(exc).ok THEN JS_ToCString(exc).s
    ELSE IF JS_ToCString(JS_GetPropertyStr(exc, "message")).ok
    THEN JS_ToCString(JS_GetPropertyStr(exc, "message")).s
    ELSE "(unable to extract message)"

\* the stack section: present when the stack property is not undefined and
\* has a string form
StackSection(exc) ==
    LET stackVal == JS_GetPropertyStr(exc, "stack")
    IN  IF ~JS_IsUndefined(stackVal) /\ JS_ToCString(stackVal).ok
        THEN "\nStack: " \o JS_ToCString(stackVal).s
        ELSE ""

(***************************************************************************)
(* C8 (amended)  When the evaluated source raises a value E, eval_js       *)
(* returns 22 and the Diagnostic Record is "Exception: " followed by the   *)
(* string form of E (for an Error object its name, ": " and its message,   *)
(* so `throw new Error('boom')` gives "Exception: Error: boom"; the        *)
(* message property alone only when E has no string form), followed by     *)
(* "\nStack: " and the stack text when E has a stack that is not undefined *)
(* and has a string form, the whole cut to 1023 bytes.  A thrown string    *)
(* 'boom' gives exactly "Exception: boom".                                 *)
(***************************************************************************)
C8_ExceptionRecord ==
    (IsEvalJs /\ Raised) =>
        LET exc == PendingException
        IN  /\ status = 22
            /\ g_last_error =
                  Take("Exception: " \o ExceptionText(exc) \o StackSection(exc),
                       ErrCap - 1)
            /\ (call.eng.fail = "none" /\ Evaluated = "throw new Error('boom')")
                  => g_last_error = "Exception: Error: boom\nStack: " \o StackText
            /\ (call.eng.fail = "none" /\ Evaluated = "throw 'boom'")
                  => g_last_error = "Exception: boom"
            /\ (call.eng.fail = "none"
                /\ Evaluated = "throw {message:'bad',toString(){throw 0}}")
                  => g_last_error = "Exception: bad"

\* `throw new Error('boom')`: the record names the error's class before its
\* message and ends with the stack section
C8_Witness ==
    /\ IsEvalJs /\ Raised /\ status = 22
    /\ Evaluated = "throw new Error('boom')"
    /\ HasMessage(PendingException) /\ HasStack(PendingException)
    /\ IsPrefix("Exception: Error: boom\nStack: ", g_last_error)

\* the text the last call formatted into the record: that of its last
\* set_error and of the appends after it
RecordText ==
    LET last == CHOOSE i \in Ops("set_error") :
                    \A j \in Ops("set_error") : j <= i
        RECURSIVE Appended(_)
        Appended(i) ==
            IF i > Len(trace) THEN ""
            ELSE (IF trace[i].op = "append_error" THEN trace[i].text ELSE "")
                 \o Appended(i + 1)
    IN  trace[last].text \o Appended(last + 1)

(***************************************************************************)
(* C9  Truncation safety: in every reachable state the Diagnostic Record   *)
(* holds at most 1023 bytes and the Canonical Result at most 65535, no     *)
(* write of the last call (terminator included, the stack append at the    *)
(* end of the record too) ended beyond its buffer, and the record is the   *)
(* text the last call formatted, cut to 1023 bytes: nothing of an earlier  *)
(* call's record remains.                                                  *)
(***************************************************************************)
C9_TruncationSafety ==
    /\ Len(g_last_error) <= ErrCap - 1
    /\ Len(g_result) <= ResCap - 1
    /\ extent.err <= ErrCap
    /\ extent.res <= ResCap
    /\ call.fn # "none" =>
          /\ ErrWritten
          /\ g_last_error = Take(RecordText, ErrCap - 1)

\* both buffers full: a record whose stack section was cut by the append,
\* beside a result an earlier call cut at the end of its buffer
C9_Witness ==
    /\ IsEvalJs /\ status = 22
    /\ Ops("append_error") # {}
    /\ Len(g_last_error) = ErrCap - 1
    /\ Contains(g_last_error, "\nSt")
    /\ Len(RecordText) > ErrCap - 1
    /\ extent.err = ErrCap
    /\ Len(g_result) = ResCap - 1

(***************************************************************************)
(* C10  The call-out of the ScriptBox variant maps the host primitive's    *)
(* return code R, for every R: R < 0 raises a guest error carrying R,      *)
(* which the guest can catch and which otherwise ends the call with 22;    *)
(* R = 0 returns null; R > 0 returns a string of exactly the first R bytes *)
(* the host wrote to the response buffer.                                  *)
(***************************************************************************)
C10_ReturnCodeOutcome ==
    (IsEvalJs /\ variant = "ScriptBox" /\ call.eng.fail = "none") =>
        LET R == call.eng.host.ret
            written == call.eng.host.bytes
        IN  /\ Evaluated = "__host.bridge('ping')" =>
                /\ Cardinality(Ops("host_call")) = 1
                /\ R < 0 => /\ status = 22
                            /\ Contains(g_last_error, "code " \o Decimal(R))
                /\ R = 0 => status = 0 /\ g_result = "null"
                /\ R > 0 => /\ status = 0
                            /\ Len(g_result) = R
                            /\ g_result = Take(written, R)
            /\ Evaluated = "try{__host.bridge('ping')}catch(e){'caught'}" =>
                /\ status = 0
                /\ R < 0 => g_result = "caught"

\* the host reports one byte more than the response buffer holds; the guest
\* string is that long and ends with a byte the host never wrote
C10_Witness ==
    /\ IsEvalJs /\ variant = "ScriptBox" /\ call.eng.fail = "none"
    /\ Evaluated = "__host.bridge('ping')"
    /\ call.eng.host.ret = ResponseCap + 1
    /\ Len(call.eng.host.bytes) = ResponseCap
    /\ status = 0
    /\ Len(g_result) = ResponseCap + 1
    /\ SubSeq(g_result, ResponseCap + 1, ResponseCap + 1) = "#"

\* the sources that invoke the call-out of the running variant
CallOut(arg) ==
    IF variant = "ScriptBox" THEN "__host.bridge(" \o arg \o ")"
    ELSE "__host_call_json(" \o arg \o ")"

(***************************************************************************)
(* C11  A guest invocation of the call-out with the string payload P of L  *)
(* bytes invokes host_call exactly once, with the bytes of P, the length L *)
(* and the capacity 4096; invoked with no argument, or with an argument    *)
(* that has no string form, it does not invoke host_call and raises a      *)
(* guest error.  A guest log call with a string invokes host_log exactly   *)
(* once with its bytes and byte length, and returns undefined.             *)
(***************************************************************************)
C11_ForwardsPayloadOnce ==
    (IsEvalJs /\ Ran /\ call.eng.fail = "none") =>
        /\ Evaluated = CallOut("'ping'") =>
              /\ Cardinality(Ops("host_call")) = 1
              /\ \A i \in Ops("host_call") :
                    /\ trace[i].text = "ping"
                    /\ trace[i].n = 4
                    /\ trace[i].cap = 4096
              /\ Ops("host_log") = {}
        /\ Evaluated \in {CallOut(""), CallOut("Symbol()")} =>
              /\ ~HostInvoked
              /\ Raised /\ status = 22
              /\ IsPrefix("Exception: TypeError: ", g_last_error)
        /\ Evaluated = "console.log('hi')" =>
              /\ Cardinality(Ops("host_log")) = 1
              /\ \A i \in Ops("host_log") :
                    trace[i].text = "hi" /\ trace[i].n = 2
              /\ Ops("host_call") = {}
              /\ status = 0
              /\ variant = "ScriptBox" => g_result = "undefined"

\* the call-out was invoked with 'ping' and the host answered "pong"
C11_Witness ==
    /\ IsEvalJs /\ status = 0 /\ variant = "ScriptBox"
    /\ Evaluated = "__host.bridge('ping')"
    /\ \E i \in Ops("host_call") :
          trace[i].text = "ping" /\ trace[i].n = 4 /\ trace[i].cap = ResponseCap
    /\ g_result = "pong"

\* the value the last call's evaluation returned
ResultValue ==
    JS_Eval(call.eng.fail, seen, Evaluated, call.eng.host, call.eng.junk).val

\* the last call handed the value of its evaluation to the canonicalizer
Canonicalized == IsEvalJs /\ variant = "ScriptBox" /\ Ran /\ ~Raised

\* the stringification the dispatch table chooses for a value; for an
\* object, json is what calling JSON.stringify on it gave
Chosen(v, json) ==
    CASE v.kind = "undefined" -> CStr("undefined")
      [] v.kind = "null" -> CStr("null")
      [] v.kind = "bool" -> CStr(IF v = JS_TRUE THEN "true" ELSE "false")
      [] v.kind \in {"number", "string"} -> v.tostr
      [] v.kind = "object" ->
            IF json.kind = "exception" THEN v.tostr ELSE json.tostr
      [] OTHER -> v.tostr

\* what the engine's JSON serialization makes of the value of a source,
\* whatever the source did to the global JSON object
EngineJSON(code, v) ==
    IF code = "JSON.stringify=()=>'s';({a:1})"
    THEN JS_NewStringLen("{\"a\":1}")
    ELSE v.json

(***************************************************************************)
(* C12 (as stated)  The canonicalizer follows the dispatch table:          *)
(* undefined, null, true/false by name; a number or string by its direct   *)
(* stringification; an object by the engine's JSON serialization, and by   *)
(* its direct stringification only when serialization raises; any other    *)
(* kind by its direct stringification.  Whenever the chosen stringification*)
(* succeeds the call returns 0 with that text in the Canonical Result.     *)
(***************************************************************************)
C12_DispatchTable ==
    Canonicalized =>
        LET v == ResultValue
            chosen == Chosen(v, IF v.kind = "object"
                                THEN EngineJSON(Evaluated, v) ELSE v)
        IN  chosen.ok => status = 0 /\ g_result = chosen.s

(***************************************************************************)
(* C12 (amended)  The same dispatch, with two differences: the text stored *)
(* is the chosen text cut to 65535 bytes, and an object's serialization is *)
(* what calling the `stringify` property of the context's global JSON      *)
(* returns at that moment (the guest may have replaced it; a function      *)
(* serializes to undefined and is stored as "undefined").                  *)
(***************************************************************************)
C12_DispatchTableCut ==
    Canonicalized =>
        LET v == ResultValue
            chosen == Chosen(v, IF v.kind = "object" THEN v.json ELSE v)
        IN  /\ chosen.ok => status = 0 /\ g_result = Take(chosen.s, ResCap - 1)
            /\ call.eng.fail = "none" =>
                  /\ Evaluated = "'x'" => g_result = "x"
                  /\ Evaluated = "false" => g_result = "false"
                  /\ Evaluated = "1n" => g_result = "1"
                  /\ Evaluated = "({a:1,b:[2,3]})"
                        => g_result = "{\"a\":1,\"b\":[2,3]}"
                  /\ Evaluated = "(()=>{let o={};o.o=o;return o})()"
                        => g_result = "[object Object]"
                  /\ Evaluated = "(function(){})" => g_result = "undefined"
                  /\ Evaluated = "JSON.stringify=()=>'s';({a:1})"
                        => g_result = "s"
                  /\ Evaluated = "'x'.repeat(N)"
                        => g_result = Rep("x", ResCap - 1)

\* an object whose serialization raised (it contains itself) was stored by
\* its direct stringification
C12_Witness ==
    /\ Canonicalized /\ status = 0
    /\ ResultValue.kind = "object"
    /\ JS_IsException(ResultValue.json)
    /\ g_result = "[object Object]"

\* the stringification the canonicalizer chose for the last call's value
ChosenText ==
    Chosen(ResultValue,
           IF ResultValue.kind = "object" THEN ResultValue.json ELSE ResultValue)

\* the diagnostics of the canonicalizer's three failing steps
ConversionFailures ==
    {"Failed to convert value to string", "Failed to convert object to string",
     "Failed to convert JSON result to string"}

(***************************************************************************)
(* C13  When the stringification the canonicalizer chose fails, eval_js    *)
(* returns 26, the Canonical Result is the empty string and no text was    *)
(* written to it after the clear, the Diagnostic Record names the          *)
(* conversion failure, and the context and then the runtime are freed;     *)
(* and eval_js returns 26 in no other case.                                *)
(***************************************************************************)
C13_ConversionFailure ==
    /\ (Canonicalized /\ ~ChosenText.ok) =>
          /\ status = 26
          /\ g_result = ""
          /\ Ops("clear_result") # {} /\ Ops("write_result") = {}
          /\ g_last_error \in ConversionFailures
          /\ Cardinality(Ops("JS_FreeContext")) = 1
          /\ Cardinality(Ops("JS_FreeRuntime")) = 1
          /\ \A c \in Ops("JS_FreeContext") : \A r \in Ops("JS_FreeRuntime") :
                c < r /\ r <= Len(trace)
    /\ (IsEvalJs /\ status = 26) => (Canonicalized /\ ~ChosenText.ok)

\* an object whose serialization raises and which has no string form, in a
\* call made after an earlier call had run `x=5` and left its result
C13_Witness ==
    /\ Canonicalized /\ status = 26
    /\ Evaluated = "({toJSON(){throw 1},toString(){throw 2}})"
    /\ g_last_error = "Failed to convert object to string"
    /\ g_result = ""
    /\ "x" \in arena

IsSelfTest == call.fn = "quickjs_selftest"

(***************************************************************************)
(* C14  quickjs_selftest returns only 0, 100, 101 or 102, and eval_js only *)
(* 0 or 20..26; on every path of quickjs_selftest the runtime and the      *)
(* context it made are each freed exactly once; it returns 0 exactly when  *)
(* the fixed expression evaluated without exception (which it does when    *)
(* the engine is sound), and then the Diagnostic Record is                 *)
(* "Selftest: OK (QuickJS is functional)"; it never writes the Canonical   *)
(* Result and never invokes a host import.                                 *)
(***************************************************************************)
C14_SelfTest ==
    /\ IsEvalJs => status \in {0} \cup 20..26
    /\ IsSelfTest =>
          /\ status \in {0, 100, 101, 102}
          /\ Cardinality(Made("JS_NewRuntime")) <= 1
          /\ Cardinality(Ops("JS_FreeRuntime")) = Cardinality(Made("JS_NewRuntime"))
          /\ Cardinality(Ops("JS_FreeContext")) = Cardinality(Made("JS_NewContext"))
          /\ \A f \in Ops("JS_FreeRuntime") : \E c \in Made("JS_NewRuntime") : c < f
          /\ \A f \in Ops("JS_FreeContext") : \E c \in Made("JS_NewContext") : c < f
          /\ (status = 0) <=> (Ran /\ ~Raised)
          /\ call.eng.fail = "none" => status = 0
          /\ status = 0 => g_last_error = "Selftest: OK (QuickJS is functional)"
          /\ status = 100 => Ops("JS_NewContext") = {} /\ ~Ran
          /\ status = 101 => Made("JS_NewContext") = {} /\ ~Ran
          /\ status = 102 => Raised
          /\ ErrWritten
          /\ ~ResWritten
          /\ ~HostInvoked

\* a self-test that succeeded after an eval_js call had left a result
C14_Witness ==
    /\ IsSelfTest /\ status = 0
    /\ g_last_error = "Selftest: OK (QuickJS is functional)"
    /\ Cardinality(Ops("JS_FreeRuntime")) = 1
    /\ Cardinality(Ops("JS_FreeContext")) = 1
    /\ g_result = "pong"

\* the kind of exported call a step is, read from the state it leads to
IsAccessorStep == fetched'.fn # "none"
IsEvalJsStep == fetched'.fn = "none" /\ call'.fn = "eval_js"
IsSelfTestStep == fetched'.fn = "none" /\ call'.fn = "quickjs_selftest"

\* an accessor returned the stored text, or its length
ReadsStoredText ==
    /\ fetched.fn = "get_last_error_ptr" => fetched.text = g_last_error
    /\ fetched.fn = "get_last_error_len" => fetched.len = Len(g_last_error)
    /\ fetched.fn = "get_result_ptr" => fetched.text = g_result
    /\ fetched.fn = "get_result_len" => fetched.len = Len(g_result)

BridgeFailures ==
    {"Global object is null/undefined - context initialization failed",
     "Failed to create console object",
     "Failed to create console.log function",
     "Failed to create __host object",
     "Failed to create bridge function",
     "Failed to create __host_call_json function"}

(***************************************************************************)
(* C16  In every eval_js call that has made its context, the bridge        *)
(* installer runs exactly once; guest source is evaluated only after it    *)
(* returned 0, in a context that has the whole bridge; if it fails at any  *)
(* step eval_js returns 23 with the diagnostic of that step, evaluates no  *)
(* guest code, and frees the context and then the runtime.                 *)
(***************************************************************************)
C16_BridgeBeforeGuestCode ==
    IsEvalJs =>
        LET inst == Ops("install_host_bridge")
            failed == {i \in inst : trace[i].n # 0}
        IN  /\ Cardinality(inst) = Cardinality(Made("JS_NewContext"))
            /\ Cardinality(inst) <= 1
            /\ \A i \in inst : \E c \in Made("JS_NewContext") : c < i
            /\ Cardinality(Ops("JS_Eval")) <= 1
            /\ \A e \in Ops("JS_Eval") :
                  /\ \E i \in inst : i < e /\ trace[i].n = 0
                  /\ BridgeGlobals \subseteq seen
            /\ (failed # {}) <=> (status = 23)
            /\ failed # {} =>
                  /\ ~Ran /\ ~HostInvoked
                  /\ g_last_error \in BridgeFailures
                  /\ Cardinality(Ops("JS_FreeContext")) = 1
                  /\ Cardinality(Ops("JS_FreeRuntime")) = 1
                  /\ \A i \in failed : \A c \in Ops("JS_FreeContext") :
                        \A r \in Ops("JS_FreeRuntime") : i < c /\ c < r

\* the installer failed after it had attached console but before __host:
\* the call ended with 23 and evaluated nothing
C16_Witness ==
    /\ IsEvalJs /\ status = 23 /\ variant = "ScriptBox"
    /\ call.eng.fail = "JS_NewObject:__host"
    /\ Ops("JS_SetPropertyStr") # {}
    /\ g_last_error = "Failed to create __host object"
    /\ ~Ran

(***************************************************************************)
(* eval_js called from several host threads.  The engine objects of a call *)
(* are its own; what the calls share is g_last_error and g_result, so a    *)
(* call is here the sequence of its writes to the two buffers, each write  *)
(* one step, and the calls of different threads interleave between writes. *)
(***************************************************************************)

\* the operations of a call that write a buffer
IsBufferOp(e) ==
    e.op \in {"set_error", "append_error", "clear_result", "write_result"}

\* what eval_js of the loaded variant does with a request
EvalJsOutcome(req, eng) ==
    IF variant = "ScriptBox" THEN eval_js(req.code_ptr, req.len, eng)
    ELSE assistant_eval_js(req.code_ptr, req.len, eng)

\* the sources the threads submit
ThreadSources == {"1+1", "'x'", "throw 'boom'"}

\* (mutant) a host that lets a thread in while another holds the mutex
MayEnter_unguarded(t) == TRUE

\* a serializing host lets a thread call only when the mutex is free
MayEnter(t) == serialized => lock = 0

ThreadInit ==
    /\ variant \in Variants
    /\ g_last_error = ""
    /\ g_result = ""
    /\ call = [fn |-> "none", code_ptr |-> NullSource, len |-> 0, eng |-> NoEng]
    /\ status = 0
    /\ trace = <<>>
    /\ extent = [err |-> 0, res |-> 0]
    /\ seen = {}
    /\ arena = {}
    /\ fetched = NoFetch
    /\ serialized \in BOOLEAN
    /\ lock = 0
    /\ thr = [t \in Threads |-> Idle]

ThreadFrame ==
    UNCHANGED <<variant, call, status, trace, extent, seen, arena, fetched,
                serialized>>

\* thread t calls eval_js: the call is fixed by its source; its buffer
\* writes are still to come
Enter(t) ==
    /\ thr[t].pc = "idle"
    /\ MayEnter(t)
    /\ \E b \in ThreadSources :
          \E r \in {EvalJsOutcome([code_ptr |-> Source(b), len |-> Len(b)], NoEng)} :
          \E m \in {RunBuf([err |-> "", res |-> "", xerr |-> 0, xres |-> 0], r.ev)} :
             thr' = [thr EXCEPT ![t] =
                        [pc |-> "running", todo |-> SelectSeq(r.ev, IsBufferOp),
                         status |-> r.status,
                         made |-> [err |-> m.err, res |-> m.res],
                         got |-> [err |-> "", res |-> ""]]]
    /\ lock' = IF serialized THEN t ELSE lock
    /\ UNCHANGED <<g_last_error, g_result>>
    /\ ThreadFrame

\* the call of thread t makes its next write to a buffer
Write(t) ==
    /\ thr[t].pc = "running"
    /\ thr[t].todo # <<>>
    /\ \E m \in {StepBuf([err |-> g_last_error, res |-> g_result,
                         xerr |-> 0, xres |-> 0], Head(thr[t].todo))} :
          /\ g_last_error' = m.err
          /\ g_result' = m.res
    /\ thr' = [thr EXCEPT ![t].todo = Tail(@)]
    /\ UNCHANGED lock
    /\ ThreadFrame

\* the call of thread t returns its status
Return(t) ==
    /\ thr[t].pc = "running"
    /\ thr[t].todo = <<>>
    /\ thr' = [thr EXCEPT ![t].pc = "returned"]
    /\ UNCHANGED <<g_last_error, g_result, lock>>
    /\ ThreadFrame

\* thread t fetches both buffers through the accessors, then lets go of the
\* mutex if the host uses one
Read(t) ==
    /\ thr[t].pc = "returned"
    /\ thr' = [thr EXCEPT ![t].pc = "read",
                          ![t].got = [err |-> get_last_error_ptr,
                                      res |-> get_result_ptr]]
    /\ lock' = IF serialized THEN 0 ELSE lock
    /\ UNCHANGED <<g_last_error, g_result>>
    /\ ThreadFrame

\* thread t is done with what it read and may call again
Again(t) ==
    /\ thr[t].pc = "read"
    /\ thr' = [thr EXCEPT ![t] = Idle]
    /\ UNCHANGED <<g_last_error, g_result, lock>>
    /\ ThreadFrame

ThreadNext ==
    \E t \in Threads : Enter(t) \/ Write(t) \/ Return(t) \/ Read(t) \/ Again(t)

SpecThreads == ThreadInit /\ [][ThreadNext]_vars

\* what thread t read is what its own call made: its record, and its result
\* when the call wrote one
Corresponds(t) ==
    /\ thr[t].got.err = thr[t].made.err
    /\ (variant = "ScriptBox" /\ thr[t].status \in {0, 26})
          => thr[t].got.res = thr[t].made.res

(***************************************************************************)
(* C17  When the host serializes its eval_js calls (each call and the      *)
(* fetch of its buffers under one mutex), the Diagnostic Record and the    *)
(* Canonical Result a thread reads after its call are the ones that call   *)
(* produced for its status.  (Without the mutex a thread can read a record *)
(* or result of another thread's call: the state C17_Witness.)             *)
(***************************************************************************)
C17_SerializedReadsOwn ==
    serialized =>
        /\ \A t \in Threads : thr[t].pc = "read" => Corresponds(t)
        /\ \A t \in Threads : thr[t].pc \in {"running", "returned"} => lock = t

\* two calls interleaved without the mutex: a thread whose call returned 0
\* reads the other call's "Exception: boom" as its Diagnostic Record
C17_Witness ==
    /\ ~serialized
    /\ \E t \in Threads : \E u \in Threads \ {t} :
          /\ thr[t].pc = "read" /\ thr[t].status = 0
          /\ thr[t].made.err = "OK"
          /\ thr[t].got.err = "Exception: boom"
          /\ thr[u].status = 22
          /\ ~Corresponds(t)

\* the exception capture_exception was handed in the last call, which may
\* be an eval_js or a quickjs_selftest call
Captured ==
    JS_Eval(call.eng.fail, seen, trace[CHOOSE i \in Ops("JS_Eval") : TRUE].text,
            call.eng.host, call.eng.junk).pending

(***************************************************************************)
(* C18  capture_exception leaves a record that begins with "Exception: ".  *)
(* Its message part is the direct stringification of the exception value   *)
(* if that succeeds, else that of its message property if that succeeds,   *)
(* else "(unable to extract message)".  If and only if the stack property  *)
(* is not undefined and has a string form, "\nStack: " and the stack text  *)
(* are appended after the message part, cut at capacity; the stack step    *)
(* never shortens or replaces the message part.                            *)
(***************************************************************************)
C18_MessageAndStackIndependent ==
    Raised =>
        LET exc == Captured
            direct == JS_ToCString(exc)
            viaProp == JS_ToCString(JS_GetPropertyStr(exc, "message"))
            msgPart == "Exception: " \o
                       (IF direct.ok THEN direct.s
                        ELSE IF viaProp.ok THEN viaProp.s
                        ELSE "(unable to extract message)")
            stackVal == JS_GetPropertyStr(exc, "stack")
            hasStack == ~JS_IsUndefined(stackVal) /\ JS_ToCString(stackVal).ok
            written == Take(msgPart, ErrCap - 1)
        IN  /\ Cardinality(Ops("set_error")) = 1
            /\ \A i \in Ops("set_error") : trace[i].text = msgPart
            /\ Cardinality(Ops("append_error")) = (IF hasStack THEN 1 ELSE 0)
            /\ \A a \in Ops("append_error") :
                  /\ \A i \in Ops("set_error") : i < a
                  /\ trace[a].text = "\nStack: " \o JS_ToCString(stackVal).s
            /\ IsPrefix("Exception: ", g_last_error)
            /\ IsPrefix(written, g_last_error)
            /\ ~hasStack => g_last_error = written
            /\ hasStack =>
                  Len(g_last_error) =
                     Min(Len(msgPart) + 8 + Len(JS_ToCString(stackVal).s),
                         ErrCap - 1)

\* neither the value nor its message property has a string form, and the
\* stack still follows the placeholder
C18_Witness ==
    /\ Raised /\ IsEvalJs
    /\ ~JS_ToCString(Captured).ok
    /\ ~JS_ToCString(JS_GetPropertyStr(Captured, "message")).ok
    /\ g_last_error = "Exception: (unable to extract message)\nStack: st"

\* the operations that hand the bridge a value, string or allocation it has
\* to release, and those that release one (JS_SetPropertyStr takes over the
\* value it is given); text names the C variable
AcquireOps ==
    {"JS_GetGlobalObject", "JS_NewObject", "JS_NewCFunction", "JS_GetPropertyStr",
     "JS_Call", "JS_GetException", "JS_Eval:value", "JS_ToCString",
     "JS_ToCStringLen", "js_malloc_rt"}
ReleaseOps == {"JS_FreeValue", "JS_FreeCString", "JS_SetPropertyStr", "js_free_rt"}

\* positions at which the last call obtained something live
Acquired == {i \in DOMAIN trace : trace[i].op \in AcquireOps /\ trace[i].n = 1}

\* the releases of what was obtained at i: those of the same variable after
\* i and before the variable is assigned again
ReleasesOf(i) ==
    LET again == {j \in Acquired : j > i /\ trace[j].text = trace[i].text}
        until == IF again = {} THEN Len(trace) + 1
                 ELSE CHOOSE j \in again : \A k \in again : j <= k
    IN  {j \in (i + 1)..(until - 1) :
            trace[j].op \in ReleaseOps /\ trace[j].text = trace[i].text}

(***************************************************************************)
(* C19  Release ordering within one eval_js call: every value, string and  *)
(* allocation obtained during the call is released exactly once, before    *)
(* the context is freed; the context is freed before its runtime; after    *)
(* the context is freed nothing but the runtime's release and the writing  *)
(* of the Diagnostic Record happens, and after the runtime is freed        *)
(* nothing but the latter.                                                 *)
(***************************************************************************)
C19_ReleaseOrder ==
    IsEvalJs =>
        /\ \A i \in Acquired :
              /\ Cardinality(ReleasesOf(i)) = 1
              /\ \A j \in ReleasesOf(i) : \A c \in Ops("JS_FreeContext") : j < c
              /\ \E c \in Made("JS_NewContext") : c < i
        /\ Made("JS_NewContext") # {} => Ops("JS_FreeContext") # {}
        /\ \A c \in Ops("JS_FreeContext") :
              /\ \E r \in Ops("JS_FreeRuntime") : c < r
              /\ \A j \in (c + 1)..Len(trace) :
                    trace[j].op \in {"JS_FreeRuntime", "set_error"}
        /\ \A r \in Ops("JS_FreeRuntime") :
              \A j \in (r + 1)..Len(trace) : trace[j].op = "set_error"

\* a call that serialized an object: the global object was obtained and
\* released twice, the source copy and the four values of the
\* JSON.stringify call once each
C19_Witness ==
    /\ IsEvalJs /\ status = 0
    /\ Cardinality(Ops("JS_GetGlobalObject") \cap Acquired) = 2
    /\ Ops("JS_Call") \cap Acquired # {}
    /\ Ops("js_malloc_rt") \cap Acquired # {}
    /\ \A i \in Acquired : Cardinality(ReleasesOf(i)) = 1
    /\ Cardinality(Acquired) >= 12

\* the step is an eval_js call of the ScriptBox variant that returned st
ReturnsFromEval(st) ==
    IsEvalJsStep /\ variant = "ScriptBox" /\ status' \in st

(***************************************************************************)
(* C20 (as stated)  The Canonical Result is empty until a call returns 0;  *)
(* from then on it is the canonical text of the most recent call that      *)
(* returned 0, or empty if a later call reached the canonicalizer and      *)
(* returned 26: a call returning 0 makes it its canonical text, a call     *)
(* returning 26 empties it, and calls returning 20..25 and                 *)
(* quickjs_selftest calls leave it as it was.                              *)
(***************************************************************************)
C20_LastSuccessfulText ==
    /\ [](call.fn = "none" => g_result = "")
    /\ []((IsEvalJs /\ variant = "ScriptBox" /\ status = 0)
            => g_result = ChosenText.s)
    /\ [][~ReturnsFromEval({0}) =>
            g_result' = IF ReturnsFromEval({26}) THEN "" ELSE g_result]_vars

(***************************************************************************)
(* C20 (amended)  The same, where the text a call returning 0 leaves is    *)
(* its canonical text cut to the first 65535 bytes.                        *)
(***************************************************************************)
C20_LastSuccessfulTextCut ==
    /\ [](call.fn = "none" => g_result = "")
    /\ []((IsEvalJs /\ variant = "ScriptBox" /\ status = 0)
            => g_result = Take(ChosenText.s, ResCap - 1))
    /\ [][~ReturnsFromEval({0}) =>
            /\ g_result' = IF ReturnsFromEval({26}) THEN "" ELSE g_result
            /\ (IsSelfTestStep \/ ReturnsFromEval(20..25)) =>
                  /\ get_result_ptr' = get_result_ptr
                  /\ get_result_len' = get_result_len]_vars

\* the latest call was refused for its null source; the accessors still give
\* the text, cut at capacity, of an earlier successful call
C20_Witness ==
    /\ IsEvalJs /\ variant = "ScriptBox"
    /\ status = 24
    /\ get_result_len = ResCap - 1
    /\ get_result_ptr = Rep("x", ResCap - 1)

\* what the guest sees of a call-out: whether it raised, and unless it did
\* the value it returned (the text of the raised error is left aside)
GuestOutcome(r) ==
    [raised |-> r.exc, val |-> IF r.exc THEN JS_EXCEPTION ELSE r.val]

(***************************************************************************)
(* C21  In both variants of the call-out, for every return code R of the   *)
(* host primitive, the guest string is built from no more than the 4096    *)
(* bytes of the response buffer: R > 4096 raises a guest error (an         *)
(* uncaught one ends the call with 22 and an "Exception: " record) instead *)
(* of giving a string of bytes beyond the buffer, and js_bridge_call and   *)
(* js_host_call_json give the same guest-visible outcome for the same      *)
(* reply of the host.                                                      *)
(***************************************************************************)
C21_ResponseReadBounded ==
    (IsEvalJs /\ Ran /\ call.eng.fail = "none"
        /\ Evaluated = CallOut("'ping'")) =>
        LET host == call.eng.host
            R == host.ret
            arg == JS_NewStringLen("ping")
            a == js_bridge_call(1, arg, host, call.eng.junk)
            b == js_host_call_json(1, arg, host, call.eng.junk)
        IN  /\ R > ResponseCap =>
                /\ status = 22
                /\ Contains(g_last_error, "Exception: ")
            /\ (variant = "ScriptBox" /\ status = 0) =>
                  Len(g_result) <= ResponseCap
            /\ GuestOutcome(a) = GuestOutcome(b)

\* the ScriptBox call-out made a guest string longer than its response
\* buffer from a reply for which the assistant call-out raises
C21_Witness ==
    /\ IsEvalJs /\ variant = "ScriptBox" /\ Ran /\ call.eng.fail = "none"
    /\ Evaluated = CallOut("'ping'")
    /\ call.eng.host.ret > ResponseCap
    /\ status = 0
    /\ Len(g_result) > ResponseCap
    /\ js_host_call_json(1, JS_NewStringLen("ping"), call.eng.host,
                         call.eng.junk).exc

(***************************************************************************)
(* The length of the source as the host declares it                        *)
(***************************************************************************)

\* js_malloc_rt takes a size_t: the int n = len + 1 converts to n when it is
\* not negative and to 2^32 + n, which is 2^31 or more, when it is.  A block
\* of 2^31 bytes or more is taken as never granted; any smaller one, the one
\* of 0 bytes included, as granted or refused as the allocator decides.
Grantable(n) == n >= 0

\* the index i (an int added to the block's address) lies inside a block of
\* (size_t) n bytes
InsideBlock(i, n) == i >= 0 /\ (n < 0 \/ i < n)

\* the lengths a host may declare for the source b: its byte length, none,
\* negative ones, and the largest int
LengthsFor(b) == {Len(b), 0, -1, -2, INT_MIN, INT_MAX}
LengthSources == {"1+1", "'x'", "throw 'boom'"}
LengthRequests ==
    UNION {{[code_ptr |-> Source(b), len |-> n] : n \in LengthsFor(b)} :
              b \in LengthSources}

\* what the engine may do with a request: nothing fails, the context or the
\* source copy is refused, or evaluation raises (what JS_Eval finds in a
\* copy whose terminator went elsewhere is indeterminate)
AllocFailsFor(req) ==
    IF Grantable(PlusOne(req.len))
    THEN {"none", "JS_NewContext", "js_malloc_rt", "JS_Eval"}
    ELSE {"JS_NewContext", "js_malloc_rt"}

EvalJsLengths ==
    \E req \in LengthRequests :
    \E fail \in AllocFailsFor(req) :
        LET eng == [fail |-> fail, host |-> NoReply, junk |-> "?"]
        IN  Finish("eval_js", req, eng,
                   IF variant = "ScriptBox"
                   THEN eval_js(req.code_ptr, req.len, eng)
                   ELSE assistant_eval_js(req.code_ptr, req.len, eng))

NextLengths == EvalJsLengths \/ SelfTest

SpecLengths == Init /\ [][NextLengths]_vars

(***************************************************************************)
(* C22  For every int length passed to eval_js with a non-null source: a   *)
(* length from 0 up to INT_MAX - 1 makes the call request len + 1 bytes,   *)
(* copy exactly len bytes and write the terminator at index len, inside    *)
(* the block; a negative length, or INT_MAX whose len + 1 wraps, ends in a *)
(* failure status with the context and the runtime released and with no    *)
(* byte copied or terminator written.                                      *)
(***************************************************************************)
C22_OwnedCopyInBounds ==
    (IsEvalJs /\ ~call.code_ptr.null) =>
        LET len == call.len
        IN  IF len >= 0 /\ len < INT_MAX
            THEN /\ \A i \in Ops("js_malloc_rt") : trace[i].cap = len + 1
                 /\ \A i \in Ops("copy") : Len(trace[i].text) = len
                 /\ \A i \in Ops("terminate") :
                       /\ trace[i].n = len
                       /\ \A j \in Made("js_malloc_rt") :
                             j < i /\ InsideBlock(trace[i].n, trace[j].cap)
                 /\ Made("js_malloc_rt") # {} =>
                       Ops("copy") # {} /\ Ops("terminate") # {}
            ELSE /\ status \in {20, 21, 23, 25}
                 /\ Ops("copy") = {} /\ Ops("terminate") = {}
                 /\ Cardinality(Ops("JS_FreeRuntime"))
                       = Cardinality(Made("JS_NewRuntime"))
                 /\ Cardinality(Ops("JS_FreeContext"))
                       = Cardinality(Made("JS_NewContext"))

\* a call with the length -1: the block of 0 bytes was granted, no byte was
\* copied, the terminator was written at index -1 and the source evaluated
C22_Witness ==
    /\ IsEvalJs /\ ~call.code_ptr.null
    /\ call.len = -1
    /\ \E j \in Made("js_malloc_rt") : trace[j].cap = 0
    /\ \E i \in Ops("terminate") :
          trace[i].n = -1 /\ ~InsideBlock(trace[i].n, 0)
    /\ Ran
    /\ status \notin {20, 21, 23, 25}

====
